---- MODULE Spec2Model ----
(***************************************************************************)
(* Verification model of the marketpulse orchestration core:               *)
(*   - the per-feature version ledger (forecasting_agent/forecaster.py),   *)
(*   - the staleness checker and recommendation engine                     *)
(*     (orchestrator/intelligent_model_checker.py),                        *)
(*   - the driver (run_pipeline.py) and the stage graphs                   *)
(*     (orchestrator/graph.py, nodes.py, inference_nodes.py).              *)
(* Time is counted in half days so that timedelta.days is a real floor.    *)
(***************************************************************************)
EXTENDS Integers, Sequences, FiniteSets, TLC

\* ------------------------------------------------------------------------
\* Bounds of the model
\* ------------------------------------------------------------------------
MaxVersion == 2
MaxNow == 1
MaxAge == 734
MaxLoops == 1
GraphNow == 800
MaxTs == 3
MaxSaves == 2
MaxInvocations == 2

\* ------------------------------------------------------------------------
\* Program constants
\* ------------------------------------------------------------------------
DayLen == 2
DailyThreshold == 90
WeeklyThreshold == 180
MonthlyThreshold == 365
DefaultThreshold == 90
CoreThreshold == 30

None == 0
NoTime == -1
NoAge == -1

Statuses == {"training", "completed", "failed"}
Cadences == {"daily", "weekly", "monthly"}
Versions == 1..MaxVersion

VARIABLES
    ledger,     \* the feature's files: version metadata JSON, nf_bundle dirs, ensemble JSONs
    now,        \* wall clock, in half days
    cadence,    \* cadence of the feature
    attempt,    \* the training attempt in progress, if any
    issued,     \* history: the values get_next_version has returned
    call,       \* the last operation performed
    verdict,    \* the last Staleness Verdict computed
    core,       \* core model files: HMM model, regime classifier, cluster assignments
    store,      \* per feature, its files under outputs/forecasting/models
    args,       \* command line of run_pipeline.py
    gs,         \* the PipelineState of the run
    graph,      \* which graph was compiled
    node,       \* the node the graph executes next
    inv,        \* the last node invocation
    rec,        \* the Recommendation computed in auto mode
    trainer,    \* run_incremental_training: its position, queue index and results
    workdir,    \* the trainer's working tree: per queued feature, its model files and ledger
    head,       \* per queued feature, the model directory as committed locally
    remote,     \* per queued feature, the model directory as pushed to origin/main
    local_raw,      \* LocalStorage: timestamps of the rows of one raw feature file
    bigquery_raw,   \* BigQueryStorage: timestamps of the rows of the same feature in raw_features
    last_save   \* the last save_raw_feature call and both stores before it

ledgerVars == <<ledger, now, cadence, attempt, issued, call, verdict>>

graphVars == <<core, store, args, gs, graph, node, inv, rec>>

trainerVars == <<trainer, workdir, head, remote>>

storageVars == <<local_raw, bigquery_raw, last_save>>

vars == <<ledger, now, cadence, attempt, issued, call, verdict,
          core, store, args, gs, graph, node, inv, rec,
          trainer, workdir, head, remote, local_raw, bigquery_raw, last_save>>

\* ------------------------------------------------------------------------
\* Version ledger (forecaster.py)
\* ------------------------------------------------------------------------
Max(S) == CHOOSE x \in S : \A y \in S : y <= x

EmptyMetadata == [versions |-> <<>>, active_version |-> None]

NoFiles == [v \in Versions |-> NoTime]

AbsentLedger ==
    [meta_exists |-> FALSE, versions |-> <<>>, active_version |-> None,
     nf_bundle |-> {}, ensemble |-> NoFiles]

load_version_metadata(L) ==
    IF L.meta_exists
    THEN [versions |-> L.versions, active_version |-> L.active_version]
    ELSE EmptyMetadata

save_version_metadata(L, metadata) ==
    [L EXCEPT !.meta_exists = TRUE,
              !.versions = metadata.versions,
              !.active_version = metadata.active_version]

CompletedVersions(metadata) ==
    {metadata.versions[i].version : i \in
        {j \in DOMAIN metadata.versions : metadata.versions[j].status = "completed"}}

get_next_version_after_completed(L) ==
    LET completed == CompletedVersions(load_version_metadata(L)) IN
    IF completed = {} THEN 1 ELSE Max(completed) + 1

get_next_version(L) ==
    LET metadata == load_version_metadata(L) IN
    IF metadata.versions = <<>>
    THEN 1
    ELSE Max({metadata.versions[i].version : i \in DOMAIN metadata.versions}) + 1

get_latest_completed_version(L) ==
    LET completed == CompletedVersions(load_version_metadata(L)) IN
    IF completed = {} THEN None ELSE Max(completed)

\* index of the first entry with this version number, 0 when there is none
FindEntry(vs, version) ==
    LET hits == {i \in DOMAIN vs : vs[i].version = version} IN
    IF hits = {} THEN 0 ELSE CHOOSE i \in hits : \A j \in hits : i <= j

mark_version_status_clobber(L, version, status, t) ==
    LET metadata == load_version_metadata(L)
        vs == <<[version |-> version, created_at |-> t, status |-> status]>>
        act == IF status = "completed" THEN version ELSE metadata.active_version
    IN save_version_metadata(L, [versions |-> vs, active_version |-> act])

mark_version_status(L, version, status, t) ==
    LET metadata == load_version_metadata(L)
        i == FindEntry(metadata.versions, version)
        vs == IF i = 0
              THEN Append(metadata.versions,
                          [version |-> version, created_at |-> t, status |-> status])
              ELSE [metadata.versions EXCEPT ![i].status = status]
        act == IF status = "completed" THEN version ELSE metadata.active_version
    IN save_version_metadata(L, [versions |-> vs, active_version |-> act])

\* _fit_and_predict_window(save_model=True): each save is tried on its own
SaveModels(L, version, nf_saved, ensemble_saved, t) ==
    [L EXCEPT !.nf_bundle = IF nf_saved THEN @ \cup {version} ELSE @,
              !.ensemble = IF ensemble_saved THEN [@ EXCEPT ![version] = t] ELSE @]

\* ------------------------------------------------------------------------
\* Staleness checker (intelligent_model_checker.py)
\* ------------------------------------------------------------------------
get_retraining_threshold(cad) ==
    CASE cad = "daily" -> DailyThreshold
      [] cad = "weekly" -> WeeklyThreshold
      [] cad = "monthly" -> MonthlyThreshold
      [] OTHER -> DefaultThreshold

\* timedelta.days: whole days, rounded down
Days(delta) == delta \div DayLen

MissingVerdict(reason) ==
    [exists |-> FALSE, age_days |-> NoAge, needs_training |-> TRUE, reason |-> reason]

AgeVerdict_at_threshold(mtime, cad, t) ==
    LET age_days == Days(t - mtime)
        threshold == get_retraining_threshold(cad)
    IN [exists |-> TRUE, age_days |-> age_days,
        needs_training |-> age_days >= threshold, reason |-> "age"]

AgeVerdict(mtime, cad, t) ==
    LET age_days == Days(t - mtime)
        threshold == get_retraining_threshold(cad)
    IN [exists |-> TRUE, age_days |-> age_days,
        needs_training |-> age_days > threshold, reason |-> "age"]

check_feature_model_status_any_entry(L, cad, t) ==
    IF ~L.meta_exists THEN MissingVerdict("version_metadata")
    ELSE
    LET entries == {L.versions[i].version : i \in DOMAIN L.versions}
        active == IF L.active_version # None THEN L.active_version
                  ELSE IF entries # {} THEN Max(entries) ELSE None
    IN
    IF active = None THEN MissingVerdict("completed_version")
    ELSE IF active \notin L.nf_bundle \/ L.ensemble[active] = NoTime
    THEN MissingVerdict("missing_files")
    ELSE
    LET i == FindEntry(L.versions, active) IN
    IF i # 0 /\ L.versions[i].created_at # NoTime
    THEN AgeVerdict(L.versions[i].created_at, cad, t)
    ELSE AgeVerdict(L.ensemble[active], cad, t)

check_feature_model_status(L, cad, t) ==
    IF ~L.meta_exists THEN MissingVerdict("version_metadata")
    ELSE
    LET completed == CompletedVersions(L)
        active == IF L.active_version # None THEN L.active_version
                  ELSE IF completed # {} THEN Max(completed) ELSE None
    IN
    IF active = None THEN MissingVerdict("completed_version")
    ELSE IF active \notin L.nf_bundle \/ L.ensemble[active] = NoTime
    THEN MissingVerdict("missing_files")
    ELSE
    LET i == FindEntry(L.versions, active) IN
    IF i # 0 /\ L.versions[i].created_at # NoTime
    THEN AgeVerdict(L.versions[i].created_at, cad, t)
    ELSE AgeVerdict(L.ensemble[active], cad, t)

\* ------------------------------------------------------------------------
\* Core models and the recommendation engine (intelligent_model_checker.py)
\* ------------------------------------------------------------------------
Features == {"VIX", "VIX9D"}

FeatureCadence(f) == "daily"

check_core_models_status_without_cluster(c, t) ==
    LET hmm_exists == c.hmm # NoTime
        classifier_exists == c.classifier # NoTime
        hmm_age_days == IF hmm_exists THEN Days(t - c.hmm) ELSE NoAge
        classifier_age_days == IF classifier_exists THEN Days(t - c.classifier) ELSE NoAge
        age_days == IF hmm_exists /\ classifier_exists
                    THEN Max({hmm_age_days, classifier_age_days})
                    ELSE IF hmm_exists THEN hmm_age_days
                    ELSE IF classifier_exists THEN classifier_age_days
                    ELSE NoAge
    IN [hmm_exists |-> hmm_exists,
        classifier_exists |-> classifier_exists,
        cluster_exists |-> c.cluster,
        hmm_age_days |-> hmm_age_days,
        classifier_age_days |-> classifier_age_days,
        age_days |-> age_days,
        needs_training |-> \/ ~(hmm_exists /\ classifier_exists)
                           \/ (age_days # NoAge /\ age_days > CoreThreshold)]

check_core_models_status(c, t) ==
    LET hmm_exists == c.hmm # NoTime
        classifier_exists == c.classifier # NoTime
        hmm_age_days == IF hmm_exists THEN Days(t - c.hmm) ELSE NoAge
        classifier_age_days == IF classifier_exists THEN Days(t - c.classifier) ELSE NoAge
        age_days == IF hmm_exists /\ classifier_exists
                    THEN Max({hmm_age_days, classifier_age_days})
                    ELSE IF hmm_exists THEN hmm_age_days
                    ELSE IF classifier_exists THEN classifier_age_days
                    ELSE NoAge
    IN [hmm_exists |-> hmm_exists,
        classifier_exists |-> classifier_exists,
        cluster_exists |-> c.cluster,
        hmm_age_days |-> hmm_age_days,
        classifier_age_days |-> classifier_age_days,
        age_days |-> age_days,
        needs_training |-> \/ ~(hmm_exists /\ classifier_exists /\ c.cluster)
                           \/ (age_days # NoAge /\ age_days > CoreThreshold)]

check_all_features(st, t) ==
    [f \in Features |-> check_feature_model_status(st[f], FeatureCadence(f), t)]

get_features_needing_training(st, t) ==
    {f \in Features : check_all_features(st, t)[f].needs_training}

get_intelligent_recommendation_all_if_core(c, st, t) ==
    LET core_status == check_core_models_status(c, t)
        features_status == check_all_features(st, t)
        features_needing_training == get_features_needing_training(st, t)
    IN IF core_status.needs_training
       THEN [workflow |-> "train", features_to_train |-> Features,
             retrain_core |-> TRUE,
             core_status |-> core_status, features_status |-> features_status]
       ELSE IF features_needing_training = {}
       THEN [workflow |-> "inference", features_to_train |-> {},
             retrain_core |-> FALSE,
             core_status |-> core_status, features_status |-> features_status]
       ELSE [workflow |-> "partial_train", features_to_train |-> features_needing_training,
             retrain_core |-> FALSE,
             core_status |-> core_status, features_status |-> features_status]

get_intelligent_recommendation(c, st, t) ==
    LET core_status == check_core_models_status(c, t)
        features_status == check_all_features(st, t)
        features_needing_training == get_features_needing_training(st, t)
    IN IF core_status.needs_training
       THEN [workflow |-> "train", features_to_train |-> features_needing_training,
             retrain_core |-> TRUE,
             core_status |-> core_status, features_status |-> features_status]
       ELSE IF features_needing_training = {}
       THEN [workflow |-> "inference", features_to_train |-> {},
             retrain_core |-> FALSE,
             core_status |-> core_status, features_status |-> features_status]
       ELSE [workflow |-> "partial_train", features_to_train |-> features_needing_training,
             retrain_core |-> FALSE,
             core_status |-> core_status, features_status |-> features_status]

\* ------------------------------------------------------------------------
\* Pipeline State (orchestrator/state.py)
\* ------------------------------------------------------------------------
TrainStages == {"fetch", "engineer", "select", "cluster", "classify", "forecast"}
InferStages == {"inference", "alerts", "validation", "monitoring"}
WorkStages == TrainStages \cup InferStages
SkipFlags == WorkStages \cup {"cleanup"}

\* an Optional[List[str]]: None, or the list of its items
NoneList == [none |-> TRUE, items |-> {}]
ListOf(S) == [none |-> FALSE, items |-> S]

\* Python truthiness of an Optional[List]
Truthy(l) == ~l.none /\ l.items # {}

\* `x or None`
OrNone(l) == IF Truthy(l) THEN l ELSE NoneList

create_initial_state(workflow_type, skip, selective_features, retrain_core) ==
    [workflow_type |-> workflow_type,
     skip |-> skip,
     status |-> [st \in WorkStages |-> "empty"],
     approved |-> [st \in TrainStages |-> FALSE],
     artifacts |-> {},
     errors |-> <<>>,
     selective_features |-> selective_features,
     retrain_core |-> retrain_core,
     retry_stage |-> "None",
     abort_pipeline |-> FALSE,
     needs_retraining |-> FALSE,
     overrides |-> {}]

NoSkips == [st \in SkipFlags |-> FALSE]

\* status.get("success", False)
Success(status) == status \in {"ok", "used_existing", "all_fresh"}

\* ------------------------------------------------------------------------
\* Driver (run_pipeline.py)
\* ------------------------------------------------------------------------
\* the flags each run_*_workflow passes on to create_initial_state
PassedSkips(workflow, a) ==
    [st \in SkipFlags |->
        IF st = "cleanup" THEN a.no_clean
        ELSE IF st \in TrainStages THEN workflow \in {"training", "full"} /\ a.skip[st]
        ELSE workflow \in {"inference", "full"} /\ a.skip[st]]

\* main(): the auto branch rewrites the arguments from the recommendation
AutoArgs(a, r) ==
    LET carried == [a EXCEPT !.selective_features = OrNone(ListOf(r.features_to_train)),
                             !.retrain_core = r.retrain_core]
    IN IF r.workflow = "inference"
       THEN [carried EXCEPT !.workflow = "inference",
                            !.selective_features = NoneList,
                            !.retrain_core = FALSE]
       ELSE IF r.workflow = "partial_train"
       THEN [carried EXCEPT !.workflow = "full",
                            !.retrain_core = FALSE,
                            !.skip = [@ EXCEPT !["select"] = TRUE,
                                               !["cluster"] = TRUE,
                                               !["classify"] = TRUE]]
       ELSE [carried EXCEPT !.workflow = "full", !.retrain_core = TRUE]

\* run_training_workflow / run_inference_workflow / run_full_workflow
WorkflowState(a) ==
    IF a.workflow = "full"
    THEN create_initial_state("full", PassedSkips("full", a),
                              a.selective_features, a.retrain_core)
    ELSE create_initial_state(a.workflow, PassedSkips(a.workflow, a), NoneList, TRUE)

\* no pipeline run: nothing on disk, no graph compiled
NoCoreFiles == [hmm |-> NoTime, classifier |-> NoTime, cluster |-> FALSE]

NoFeatureFiles == [f \in Features |-> AbsentLedger]

NoArgs ==
    [workflow |-> "full", skip |-> NoSkips, no_clean |-> FALSE,
     selective_features |-> NoneList, retrain_core |-> TRUE]

NoInvocation == [stage |-> "none", work |-> "none", appended |-> 0, escaped |-> FALSE, given |-> {}]

NoRecommendation ==
    [get_intelligent_recommendation(NoCoreFiles, NoFeatureFiles, 0) EXCEPT !.workflow = "none"]

NoGraph == [kind |-> "none", enable_human_review |-> FALSE, loops |-> 0]

IdleGraph ==
    /\ core = NoCoreFiles
    /\ store = NoFeatureFiles
    /\ args = NoArgs
    /\ gs = create_initial_state("full", NoSkips, NoneList, TRUE)
    /\ graph = NoGraph
    /\ node = "idle"
    /\ inv = NoInvocation
    /\ rec = NoRecommendation

\* ------------------------------------------------------------------------
\* Incremental trainer state (cloud_run/incremental_trainer.py)
\* ------------------------------------------------------------------------
\* the configured features in queue order
Queue == <<"VIX", "VIX3M", "VIX9D">>

QueueFeatures == {Queue[i] : i \in DOMAIN Queue}

\* the contents of a model directory outputs/forecasting/models/<feature>/:
\* the versioned model files, and <feature>_version_metadata.json
NoDirectory == [nf_bundle |-> {}, ensemble |-> NoFiles, version_metadata |-> FALSE]

\* a working tree entry: the model directory, and the ledger beside it in
\* outputs/forecasting/models/<feature>_versions.json
NoWork == [L |-> AbsentLedger, version_metadata |-> FALSE]

NoResults == [completed |-> <<>>, skipped |-> <<>>, failed |-> <<>>]

\* what one invocation did: the units it handled in order, the units for which
\* it started a new version, and the units whose push succeeded or was given up
NoLog == [trained |-> {}, pushed |-> {}, push_failed |-> {}, handled |-> <<>>]

NoPush == [feature |-> "none", result |-> "none", attempts |-> 0]

\* staged is the git index: the units added and not yet committed
NoTrainer ==
    [pc |-> "idle", i |-> 1, results |-> NoResults, staged |-> {}, attempt |-> 0,
     last_push |-> NoPush, invocation |-> 0, cloned |-> FALSE,
     log |-> NoLog, prev |-> NoLog]

IdleTrainer ==
    /\ trainer = NoTrainer
    /\ workdir = [f \in QueueFeatures |-> NoWork]
    /\ head = [f \in QueueFeatures |-> NoDirectory]
    /\ remote = [f \in QueueFeatures |-> NoDirectory]

\* ------------------------------------------------------------------------
\* Storage state (data_agent/storage)
\* ------------------------------------------------------------------------
\* the parquet file of one raw feature: whether it exists and the timestamps of its rows
NoFile == [exists |-> FALSE, rows |-> {}]

NoSave == [frame |-> {}, local_before |-> NoFile, bigquery_before |-> {}, saves |-> 0]

IdleStorage ==
    /\ local_raw = NoFile
    /\ bigquery_raw = {}
    /\ last_save = NoSave

\* ------------------------------------------------------------------------
\* Operations on one feature's ledger
\* ------------------------------------------------------------------------
Idle == [phase |-> "idle", version |-> None]

Call(op, version, status) == [op |-> op, version |-> version, status |-> status]

NoVerdict == [exists |-> FALSE, age_days |-> NoAge, needs_training |-> FALSE, reason |-> "none"]

Init ==
    /\ ledger = AbsentLedger
    /\ now = 0
    /\ cadence \in Cadences
    /\ attempt = Idle
    /\ issued = <<>>
    /\ call = Call("init", None, "")
    /\ verdict = NoVerdict
    /\ IdleGraph
    /\ IdleTrainer
    /\ IdleStorage

\* mark_version_status called directly, with any version and status
MarkVersionStatus(version, status) ==
    /\ ledger' = mark_version_status(ledger, version, status, now)
    /\ call' = Call("mark", version, status)
    /\ UNCHANGED <<now, cadence, attempt, issued, verdict, core, store, args, gs, graph, node, inv, rec>>
    /\ UNCHANGED <<trainer, workdir, head, remote, local_raw, bigquery_raw, last_save>>

\* train_forecaster_for_feature up to the point where the new version is marked training
BeginAttempt(force_retrain) ==
    /\ attempt.phase = "idle"
    /\ force_retrain \/ get_latest_completed_version(ledger) = None
    /\ get_next_version(ledger) <= MaxVersion
    /\ LET current_version == get_next_version(ledger) IN
        /\ issued' = Append(issued, current_version)
        /\ ledger' = mark_version_status(ledger, current_version, "training", now)
        /\ attempt' = [phase |-> "training", version |-> current_version]
        /\ call' = Call("mark", current_version, "training")
    /\ UNCHANGED <<now, cadence, verdict, core, store, args, gs, graph, node, inv, rec>>
    /\ UNCHANGED <<trainer, workdir, head, remote, local_raw, bigquery_raw, last_save>>

\* train_forecaster_for_feature finds a completed version and returns its metrics
ResumeAttempt ==
    /\ attempt.phase = "idle"
    /\ get_latest_completed_version(ledger) # None
    /\ call' = Call("resume", get_latest_completed_version(ledger), "")
    /\ UNCHANGED <<ledger, now, cadence, attempt, issued, verdict, core, store, args, gs, graph, node, inv, rec>>
    /\ UNCHANGED <<trainer, workdir, head, remote, local_raw, bigquery_raw, last_save>>

\* the attempt returns None (data not found, too few samples) or raises before
\* the final retrain: nothing more is written
AbandonAttempt ==
    /\ attempt.phase = "training"
    /\ attempt' = Idle
    /\ call' = Call("abandon", attempt.version, "")
    /\ UNCHANGED <<ledger, now, cadence, issued, verdict, core, store, args, gs, graph, node, inv, rec>>
    /\ UNCHANGED <<trainer, workdir, head, remote, local_raw, bigquery_raw, last_save>>

\* weekly/monthly: the final retrain is skipped, the version is marked completed
CompleteWithoutRetrain ==
    /\ attempt.phase = "training"
    /\ cadence \in {"weekly", "monthly"}
    /\ ledger' = mark_version_status(ledger, attempt.version, "completed", now)
    /\ attempt' = Idle
    /\ call' = Call("mark", attempt.version, "completed")
    /\ UNCHANGED <<now, cadence, issued, verdict, core, store, args, gs, graph, node, inv, rec>>
    /\ UNCHANGED <<trainer, workdir, head, remote, local_raw, bigquery_raw, last_save>>

\* daily: the final retrain saves what it can (each save may fail quietly),
\* then the version is marked completed
CompleteWithRetrain(nf_saved, ensemble_saved) ==
    /\ attempt.phase = "training"
    /\ cadence = "daily"
    /\ ledger' = mark_version_status(
                      SaveModels(ledger, attempt.version, nf_saved, ensemble_saved, now),
                      attempt.version, "completed", now)
    /\ attempt' = Idle
    /\ call' = Call("mark", attempt.version, "completed")
    /\ UNCHANGED <<now, cadence, issued, verdict, core, store, args, gs, graph, node, inv, rec>>
    /\ UNCHANGED <<trainer, workdir, head, remote, local_raw, bigquery_raw, last_save>>

\* daily: the final retrain raises, possibly after some of its saves, and the
\* version is marked failed
FailRetrain(nf_saved, ensemble_saved) ==
    /\ attempt.phase = "training"
    /\ cadence = "daily"
    /\ ledger' = mark_version_status(
                      SaveModels(ledger, attempt.version, nf_saved, ensemble_saved, now),
                      attempt.version, "failed", now)
    /\ attempt' = Idle
    /\ call' = Call("mark", attempt.version, "failed")
    /\ UNCHANGED <<now, cadence, issued, verdict, core, store, args, gs, graph, node, inv, rec>>
    /\ UNCHANGED <<trainer, workdir, head, remote, local_raw, bigquery_raw, last_save>>

Tick ==
    /\ now < MaxNow
    /\ now' = now + 1
    /\ call' = Call("tick", None, "")
    /\ UNCHANGED <<ledger, cadence, attempt, issued, verdict, core, store, args, gs, graph, node, inv, rec>>
    /\ UNCHANGED <<trainer, workdir, head, remote, local_raw, bigquery_raw, last_save>>

\* check_feature_model_status is run on the feature as it is on disk now
CheckFeature ==
    /\ verdict' = check_feature_model_status(ledger, cadence, now)
    /\ call' = Call("check", None, "")
    /\ UNCHANGED <<ledger, now, cadence, attempt, issued, core, store, args, gs, graph, node, inv, rec>>
    /\ UNCHANGED <<trainer, workdir, head, remote, local_raw, bigquery_raw, last_save>>

Next ==
    \/ \E version \in Versions, status \in Statuses : MarkVersionStatus(version, status)
    \/ \E force_retrain \in BOOLEAN : BeginAttempt(force_retrain)
    \/ ResumeAttempt
    \/ AbandonAttempt
    \/ CompleteWithoutRetrain
    \/ \E nf_saved \in BOOLEAN, ensemble_saved \in BOOLEAN : CompleteWithRetrain(nf_saved, ensemble_saved)
    \/ \E nf_saved \in BOOLEAN, ensemble_saved \in BOOLEAN : FailRetrain(nf_saved, ensemble_saved)
    \/ Tick
    \/ CheckFeature

Spec == Init /\ [][Next]_vars

\* training attempts only: the ledger is written by train_forecaster_for_feature alone
NextTrain ==
    \/ \E force_retrain \in BOOLEAN : BeginAttempt(force_retrain)
    \/ ResumeAttempt
    \/ AbandonAttempt
    \/ CompleteWithoutRetrain
    \/ \E nf_saved \in BOOLEAN, ensemble_saved \in BOOLEAN : CompleteWithRetrain(nf_saved, ensemble_saved)
    \/ \E nf_saved \in BOOLEAN, ensemble_saved \in BOOLEAN : FailRetrain(nf_saved, ensemble_saved)
    \/ Tick
    \/ CheckFeature

SpecTrain == Init /\ [][NextTrain]_vars

\* ------------------------------------------------------------------------
\* The staleness check on ledgers of every age
\* ------------------------------------------------------------------------
TrainingLedger == mark_version_status(AbsentLedger, 1, "training", 0)

CompletedLedger(nf_saved, ensemble_saved) ==
    mark_version_status(SaveModels(TrainingLedger, 1, nf_saved, ensemble_saved, 0),
                        1, "completed", 0)

RetrainingLedger == mark_version_status(CompletedLedger(TRUE, TRUE), 2, "training", 0)

AgedLedgers ==
    {AbsentLedger, TrainingLedger, RetrainingLedger}
        \cup {CompletedLedger(n, e) : n \in BOOLEAN, e \in BOOLEAN}

InitStale ==
    /\ ledger \in AgedLedgers
    /\ now \in 0..MaxAge
    /\ cadence \in Cadences
    /\ attempt = Idle
    /\ issued = <<>>
    /\ call = Call("init", None, "")
    /\ verdict = NoVerdict
    /\ IdleGraph
    /\ IdleTrainer
    /\ IdleStorage

NextStale == call.op = "init" /\ CheckFeature

SpecStale == InitStale /\ [][NextStale]_vars

\* ------------------------------------------------------------------------
\* Real-time logger (utils/realtime_logger.py)
\* ------------------------------------------------------------------------
RealTimeLoggerMethods == {"log", "stage", "success", "warning", "error", "info", "complete"}

\* logger.m() returns when the class has the method and raises AttributeError otherwise
LoggerHas(m) == m \in RealTimeLoggerMethods

\* ------------------------------------------------------------------------
\* Stage nodes (orchestrator/nodes.py, orchestrator/inference_nodes.py)
\* ------------------------------------------------------------------------
\* how a node invocation ends: it returns its state, or an exception leaves it
Returned(s, work) == [escaped |-> FALSE, state |-> s, work |-> work]

Escaped(s, work) == [escaped |-> TRUE, state |-> s, work |-> work]

ErrorInfo(stage, e) == [stage |-> stage, error |-> e]

\* a skip branch that reports the stage as done
Skipped_as_success(s, stage) == [s EXCEPT !.status[stage] = "ok"]

\* state["<stage>_status"] = {"skipped": True}
Skipped(s, stage) == [s EXCEPT !.status[stage] = "skipped"]

DependencyFailed(s, stage) == [s EXCEPT !.status[stage] = "dependency_failed"]

Succeeded(s, stage, paths) ==
    [s EXCEPT !.status[stage] = "ok", !.artifacts = @ \cup paths]

Failed(s, stage, e) ==
    [s EXCEPT !.errors = Append(@, ErrorInfo(stage, e)), !.status[stage] = "failed"]

DependencyMet(s, dep) == Success(s.status[dep]) \/ s.skip[dep]

WorkLabel(work_ok) == IF work_ok THEN "ok" ELSE "raised"

\* the body of a training stage: logger.stage, then the try block (logger.info,
\* the work, logger.success, logger.commit_to_github) and its handler (record
\* the error, logger.error, logger.commit_to_github)
LoggedStage(s, stage, paths, work_ok) ==
    LET done == IF LoggerHas("info") /\ work_ok THEN Succeeded(s, stage, paths) ELSE s
        try_raises == \/ ~LoggerHas("info")
                      \/ ~work_ok
                      \/ ~LoggerHas("success")
                      \/ ~LoggerHas("commit_to_github")
        handled == Failed(done, stage,
                          IF LoggerHas("info") /\ ~work_ok THEN "work" ELSE "AttributeError")
    IN IF ~LoggerHas("stage") THEN Escaped(s, "none")
       ELSE IF ~try_raises THEN Returned(done, WorkLabel(work_ok))
       ELSE IF LoggerHas("error") /\ LoggerHas("commit_to_github")
            THEN Returned(handled, WorkLabel(work_ok))
            ELSE Escaped(handled, WorkLabel(work_ok))

\* the "use existing model" path of cluster_node and classify_node: logger.info
\* and logger.commit_to_github stand outside any try block
UseExisting(s, stage, paths) ==
    IF LoggerHas("info") /\ LoggerHas("commit_to_github")
    THEN Returned([s EXCEPT !.status[stage] = "used_existing",
                            !.artifacts = @ \cup paths], "existing")
    ELSE Escaped(s, "existing")

fetch_result(s, work_ok) ==
    IF s.skip["fetch"] THEN Returned(Skipped(s, "fetch"), "skipped")
    ELSE LoggedStage(s, "fetch", {"cleaned_data_path"}, work_ok)

engineer_result(s, work_ok) ==
    IF s.skip["engineer"] THEN Returned(Skipped(s, "engineer"), "skipped")
    ELSE IF ~DependencyMet(s, "fetch")
    THEN Returned(DependencyFailed(s, "engineer"), "dependency")
    ELSE LoggedStage(s, "engineer", {"engineered_data_path"}, work_ok)

select_result(s, work_ok) ==
    IF s.skip["select"] THEN Returned(Skipped(s, "select"), "skipped")
    ELSE IF ~DependencyMet(s, "engineer")
    THEN Returned(DependencyFailed(s, "select"), "dependency")
    ELSE LoggedStage(s, "select", {"selected_features_path"}, work_ok)

hmm_needs_training(c, t) ==
    LET core_status == check_core_models_status(c, t) IN
    \/ ~core_status.hmm_exists
    \/ (core_status.hmm_age_days # NoAge /\ core_status.hmm_age_days > CoreThreshold)

classifier_needs_training(c, t) ==
    LET core_status == check_core_models_status(c, t) IN
    \/ ~core_status.classifier_exists
    \/ (core_status.classifier_age_days # NoAge
            /\ core_status.classifier_age_days > CoreThreshold)

\* cluster_node reaches run_hmm_clustering
ClusterTrains(s, c, t) ==
    /\ ~s.skip["cluster"]
    /\ DependencyMet(s, "select")
    /\ hmm_needs_training(c, t)
    /\ LoggerHas("stage") /\ LoggerHas("info")

cluster_result(s, c, t, work_ok) ==
    IF s.skip["cluster"] THEN Returned(Skipped(s, "cluster"), "skipped")
    ELSE IF ~DependencyMet(s, "select")
    THEN Returned(DependencyFailed(s, "cluster"), "dependency")
    ELSE IF ~hmm_needs_training(c, t)
    THEN UseExisting(s, "cluster", {"cluster_assignments_path"})
    ELSE LoggedStage(s, "cluster", {"cluster_assignments_path"}, work_ok)

\* classify_node reaches train_regime_classifier
ClassifyTrains(s, c, t) ==
    /\ ~s.skip["classify"]
    /\ DependencyMet(s, "cluster")
    /\ classifier_needs_training(c, t)
    /\ LoggerHas("stage") /\ LoggerHas("info")

classify_result(s, c, t, work_ok) ==
    IF s.skip["classify"] THEN Returned(Skipped(s, "classify"), "skipped")
    ELSE IF ~DependencyMet(s, "cluster")
    THEN Returned(DependencyFailed(s, "classify"), "dependency")
    ELSE IF ~classifier_needs_training(c, t)
    THEN UseExisting(s, "classify", {"classifier_model_path"})
    ELSE LoggedStage(s, "classify", {"classifier_model_path"}, work_ok)

\* the features run_forecasting_agent trains for a selective_features argument
ForecastTargets(selective_features) ==
    IF Truthy(selective_features) THEN selective_features.items \cap Features ELSE Features

\* selective_features == []
AllFresh(s) == ~s.selective_features.none /\ s.selective_features.items = {}

\* forecast_node reaches run_forecasting_agent
ForecastTrains(s) ==
    /\ ~s.skip["forecast"]
    /\ DependencyMet(s, "fetch")
    /\ ~AllFresh(s)
    /\ LoggerHas("stage") /\ LoggerHas("info") /\ LoggerHas("commit_to_github")

forecast_result(s, work_ok) ==
    LET trains == ForecastTrains(s)
        done == IF trains /\ work_ok
                THEN Succeeded(s, "forecast", {"forecast_output_path"}) ELSE s
        fresh_raises == ~LoggerHas("stage") \/ ~LoggerHas("success")
                            \/ ~LoggerHas("commit_to_github")
        try_raises == IF AllFresh(s) THEN fresh_raises
                      ELSE \/ ~trains
                           \/ ~work_ok
                           \/ ~LoggerHas("success")
                           \/ ~LoggerHas("commit_to_github")
        handled == Failed(done, "forecast",
                          IF trains /\ ~work_ok THEN "work" ELSE "AttributeError")
        work == IF trains THEN WorkLabel(work_ok) ELSE "none"
    IN IF s.skip["forecast"] THEN Returned(Skipped(s, "forecast"), "skipped")
       ELSE IF ~DependencyMet(s, "fetch")
       THEN Returned(DependencyFailed(s, "forecast"), "dependency")
       ELSE IF ~try_raises
       THEN (IF AllFresh(s)
             THEN Returned([s EXCEPT !.status["forecast"] = "all_fresh"], "fresh")
             ELSE Returned(done, work))
       ELSE IF LoggerHas("error") /\ LoggerHas("commit_to_github")
            THEN Returned(handled, work)
            ELSE Escaped(handled, work)

\* train_forecaster_for_feature(force_retrain=False) as run_forecasting_agent calls it
TrainFeature(L, outcome, t) ==
    LET version == get_next_version(L)
        started == mark_version_status(L, version, "training", t)
    IN IF get_latest_completed_version(L) # None \/ version > MaxVersion THEN L
       ELSE IF outcome = "completed"
       THEN mark_version_status(SaveModels(started, version, TRUE, TRUE, t),
                                version, "completed", t)
       ELSE IF outcome = "failed"
       THEN mark_version_status(started, version, "failed", t)
       ELSE started

TrainOutcomes == {"completed", "failed", "abandoned"}

run_forecasting_agent(st, selective_features, outcome, t) ==
    [f \in Features |->
        IF f \in ForecastTargets(selective_features)
        THEN TrainFeature(st[f], outcome[f], t) ELSE st[f]]

\* an inference or monitoring stage: a plain try/except around the work
inference_result(s, stage, paths, work_ok) ==
    IF s.skip[stage] THEN Returned(Skipped(s, stage), "skipped")
    ELSE IF work_ok THEN Returned(Succeeded(s, stage, paths), "ok")
    ELSE Returned(Failed(s, stage, "work"), "raised")

monitoring_result(s, work_ok, should_retrain) ==
    IF s.skip["monitoring"] \/ ~work_ok
    THEN inference_result(s, "monitoring", {"monitoring_result"}, work_ok)
    ELSE Returned([Succeeded(s, "monitoring", {"monitoring_result"})
                      EXCEPT !.needs_retraining = should_retrain], "ok")

\* ------------------------------------------------------------------------
\* Cleanup (orchestrator/nodes.py)
\* ------------------------------------------------------------------------
\* pairs of configured feature names of which the first is a proper prefix of the second
ProperPrefixes == {<<"VIX", "VIX9D">>}

\* path.startswith(pp) for the model directory of g and a path of feature f
NamePrefix(g, f) == g = f \/ <<g, f>> \in ProperPrefixes

DirExists(L) == L.nf_bundle # {} \/ \E v \in Versions : L.ensemble[v] # NoTime

\* the feature directories cleanup_node adds to preserved_paths
PreservedDirs(st, selective_features) ==
    IF selective_features.none THEN {}
    ELSE {g \in Features : DirExists(st[g]) /\ g \notin selective_features.items}

\* the version ledgers cleanup_node adds to preserved_paths
PreservedLedgers(st, selective_features) ==
    IF selective_features.none THEN {}
    ELSE {g \in Features : st[g].meta_exists /\ g \notin selective_features.items}

CleanFeature(L, keep_files, keep_ledger) ==
    [meta_exists |-> keep_ledger /\ L.meta_exists,
     versions |-> IF keep_ledger THEN L.versions ELSE <<>>,
     active_version |-> IF keep_ledger THEN L.active_version ELSE None,
     nf_bundle |-> IF keep_files THEN L.nf_bundle ELSE {},
     ensemble |-> IF keep_files THEN L.ensemble ELSE NoFiles]

CleanFeatures(st, selective_features) ==
    [f \in Features |->
        LET by_dir == \E g \in PreservedDirs(st, selective_features) : NamePrefix(g, f)
        IN CleanFeature(st[f], by_dir,
                        by_dir \/ f \in PreservedLedgers(st, selective_features))]

CleanCore(c, t) ==
    IF check_core_models_status(c, t).needs_training THEN NoCoreFiles ELSE c

\* ------------------------------------------------------------------------
\* Routers (orchestrator/graph.py)
\* ------------------------------------------------------------------------
\* build_pipeline_graph: should_continue_after_<stage>
should_continue_after(stage, s) ==
    IF s.abort_pipeline THEN "abort"
    ELSE IF ~Success(s.status[stage]) /\ ~s.skip[stage] THEN "abort"
    ELSE "review"

\* an edge map whose last "review" edge leads back to fetch
AfterReview_back_to_fetch(stage) ==
    CASE stage = "fetch" -> "engineer"
      [] stage = "engineer" -> "select"
      [] stage = "select" -> "cluster"
      [] stage = "cluster" -> "classify"
      [] stage = "classify" -> "forecast"
      [] stage = "forecast" -> "fetch"

\* build_pipeline_graph(enable_human_review=False): where "review" leads
AfterReview(stage) ==
    CASE stage = "fetch" -> "engineer"
      [] stage = "engineer" -> "select"
      [] stage = "select" -> "cluster"
      [] stage = "cluster" -> "classify"
      [] stage = "classify" -> "forecast"
      [] stage = "forecast" -> "END"

\* build_pipeline_graph(enable_human_review=True): the checkpoint of a stage
ReviewNode(stage) ==
    CASE stage = "fetch" -> "review_fetch"
      [] stage = "engineer" -> "review_engineer"
      [] stage = "select" -> "review_select"
      [] stage = "cluster" -> "review_cluster"
      [] stage = "classify" -> "review_classify"
      [] stage = "forecast" -> "review_forecast"

ReviewNodes == {ReviewNode(stage) : stage \in TrainStages}

ReviewedStage(n) == CHOOSE stage \in TrainStages : ReviewNode(stage) = n

\* should_continue_after_<stage>_review with the edge map of build_pipeline_graph:
\* "parallel_agents" leads to cluster, "end" after review_classify leads to
\* forecast, "end" after review_cluster and review_forecast leads to END. The
\* router's write to retry_stage is made on its argument and is no node update.
should_continue_after_review(stage, s) ==
    IF s.abort_pipeline \/ ~s.approved[stage] THEN "abort"
    ELSE CASE stage = "fetch" -> "engineer"
           [] stage = "engineer" -> "select"
           [] stage = "select" -> "cluster"
           [] stage = "cluster" ->
                IF s.retry_stage = "cluster" THEN "cluster"
                ELSE IF ~s.skip["classify"] THEN "classify"
                ELSE "END"
           [] stage = "classify" -> "forecast"
           [] stage = "forecast" -> "END"

RoutePipeline(g, stage, s) ==
    IF stage = "cleanup" THEN "fetch"
    ELSE IF stage = "abort" THEN "END"
    ELSE IF stage \in ReviewNodes THEN should_continue_after_review(ReviewedStage(stage), s)
    ELSE IF should_continue_after(stage, s) = "abort" THEN "abort"
    ELSE IF g.enable_human_review THEN ReviewNode(stage)
    ELSE AfterReview(stage)

route_after_fetch(s) == IF s.workflow_type = "inference" THEN "inference" ELSE "engineer"

route_after_forecast(s) == IF s.workflow_type = "full" THEN "inference" ELSE "END"

route_after_monitoring(s) ==
    IF s.needs_retraining /\ s.workflow_type = "full" THEN "fetch" ELSE "END"

\* build_complete_graph
RouteComplete(stage, s) ==
    CASE stage = "cleanup" -> "fetch"
      [] stage = "fetch" -> route_after_fetch(s)
      [] stage = "engineer" -> "select"
      [] stage = "select" -> "cluster"
      [] stage = "cluster" -> "classify"
      [] stage = "classify" -> "forecast"
      [] stage = "forecast" -> route_after_forecast(s)
      [] stage = "inference" -> "alerts"
      [] stage = "alerts" -> "validation"
      [] stage = "validation" -> "monitoring"
      [] stage = "monitoring" -> route_after_monitoring(s)
      [] stage = "abort" -> "END"

Route(g, stage, s) ==
    IF g.kind = "pipeline" THEN RoutePipeline(g, stage, s) ELSE RouteComplete(stage, s)

\* ------------------------------------------------------------------------
\* Checkpoints (orchestrator/human_nodes.py)
\* ------------------------------------------------------------------------
\* what is typed at the prompt: "y" stands for y, yes and the empty line, "n"
\* for any text the node does not know; first and second tell whether the
\* follow-up inputs of exclude, modify and retune are usable (non-empty, and
\* digits for retune)
Words == {"y", "n", "review", "exclude", "modify", "retune"}

Responses == [word : Words, first : BOOLEAN, second : BOOLEAN]

Approve == [word |-> "y", first |-> FALSE, second |-> FALSE]

\* the second choice the prompt of a checkpoint offers
ModifyWord(stage) ==
    CASE stage = "fetch" -> "review"
      [] stage = "engineer" -> "exclude"
      [] stage = "select" -> "modify"
      [] stage = "cluster" -> "retune"
      [] stage \in {"classify", "forecast"} -> "none"

\* the state fields the second choice writes
Written(stage, response) ==
    CASE stage = "engineer" -> IF response.first THEN {"feature_exclusions"} ELSE {}
      [] stage = "select" ->
            (IF response.first THEN {"manual_feature_additions"} ELSE {})
            \cup (IF response.second THEN {"manual_feature_removals"} ELSE {})
      [] stage = "cluster" -> IF response.first THEN {"regime_override"} ELSE {}
      [] stage \in {"fetch", "classify", "forecast"} -> {}

Approved(s, stage) == [s EXCEPT !.approved[stage] = TRUE]

\* the else branch: every checkpoint but review_forecast sets abort_pipeline
Rejected(s, stage) ==
    IF stage = "forecast"
    THEN [s EXCEPT !.approved[stage] = FALSE]
    ELSE [s EXCEPT !.approved[stage] = FALSE, !.abort_pipeline = TRUE]

Modified(s, stage, response) ==
    LET t == [s EXCEPT !.approved[stage] = TRUE,
                       !.overrides = @ \cup Written(stage, response)]
    IN IF stage = "cluster" /\ response.first
       THEN [t EXCEPT !.retry_stage = "cluster"] ELSE t

\* review_<stage>_node with a decision rule that always asks
review_result_always_asks(s, stage, response) ==
    IF response.word = "y"
    THEN [state |-> Approved(s, stage), asked |-> TRUE]
    ELSE IF response.word = ModifyWord(stage)
    THEN [state |-> Modified(s, stage, response), asked |-> TRUE]
    ELSE [state |-> Rejected(s, stage), asked |-> TRUE]

\* review_<stage>_node: the returned state, and whether input() was called
review_result(s, stage, response) ==
    IF s.skip[stage] \/ ~Success(s.status[stage])
    THEN [state |-> Approved(s, stage), asked |-> FALSE]
    ELSE IF response.word = "y"
    THEN [state |-> Approved(s, stage), asked |-> TRUE]
    ELSE IF response.word = ModifyWord(stage)
    THEN [state |-> Modified(s, stage, response), asked |-> TRUE]
    ELSE [state |-> Rejected(s, stage), asked |-> TRUE]

\* ------------------------------------------------------------------------
\* One run of the driver and its graph
\* ------------------------------------------------------------------------
StaleTime == 0

FreshTime == GraphNow - 2 * DayLen

CoreDisks ==
    [hmm : {NoTime, StaleTime, FreshTime},
     classifier : {NoTime, StaleTime, FreshTime},
     cluster : BOOLEAN]

\* version 1 trained at time t, with the model files that were saved
TrainedFeature(nf_saved, ensemble_saved, t) ==
    mark_version_status(
        SaveModels(mark_version_status(AbsentLedger, 1, "training", t),
                   1, nf_saved, ensemble_saved, t),
        1, "completed", t)

FeatureDisks ==
    {AbsentLedger,
     TrainedFeature(TRUE, TRUE, FreshTime),
     TrainedFeature(TRUE, TRUE, StaleTime),
     TrainedFeature(FALSE, TRUE, FreshTime)}

\* the first k training stages and the first j inference stages are skipped
TrainOrder == <<"fetch", "engineer", "select", "cluster", "classify", "forecast">>

InferOrder == <<"inference", "alerts", "validation", "monitoring">>

SkipFirst(k, j) ==
    [st \in SkipFlags |->
        \/ \E i \in 1..k : TrainOrder[i] = st
        \/ \E i \in 1..j : InferOrder[i] = st]

ArgChoices ==
    [workflow : {"auto", "training", "inference", "full"},
     skip : {SkipFirst(k, j) : k \in 0..6, j \in 0..4},
     no_clean : BOOLEAN,
     selective_features : {NoneList},
     retrain_core : {TRUE}]

InitGraph ==
    /\ ledger = AbsentLedger
    /\ now = GraphNow
    /\ cadence = "daily"
    /\ attempt = Idle
    /\ issued = <<>>
    /\ call = Call("init", None, "")
    /\ verdict = NoVerdict
    /\ core \in CoreDisks
    /\ store \in [Features -> FeatureDisks]
    /\ args \in ArgChoices
    /\ gs = create_initial_state("full", NoSkips, NoneList, TRUE)
    /\ graph = NoGraph
    /\ node \in {"main", "test"}
    /\ node = "test" => args.workflow = "full"
    /\ inv = NoInvocation
    /\ rec = NoRecommendation
    /\ IdleTrainer
    /\ IdleStorage

\* run_pipeline.py main(): auto mode, then one of the run_*_workflow functions
Main ==
    /\ node = "main"
    /\ rec' = IF args.workflow = "auto"
              THEN get_intelligent_recommendation(core, store, now) ELSE rec
    /\ args' = IF args.workflow = "auto" THEN AutoArgs(args, rec') ELSE args
    /\ gs' = WorkflowState(args')
    /\ graph' = [kind |-> "complete", enable_human_review |-> FALSE, loops |-> 0]
    /\ node' = "cleanup"
    /\ UNCHANGED <<core, store, inv>>
    /\ UNCHANGED ledgerVars
    /\ UNCHANGED <<trainerVars, storageVars>>

\* the test drivers: create_initial_state with training skip flags, then
\* build_pipeline_graph, compiled without or with the checkpoints
TestMain ==
    /\ node = "test"
    /\ gs' = create_initial_state("full", PassedSkips("training", args), NoneList, TRUE)
    /\ \E enable_human_review \in BOOLEAN :
        graph' = [kind |-> "pipeline", enable_human_review |-> enable_human_review, loops |-> 0]
    /\ node' = "cleanup"
    /\ UNCHANGED <<core, store, args, inv, rec>>
    /\ UNCHANGED ledgerVars
    /\ UNCHANGED <<trainerVars, storageVars>>

\* the graph records the node's return value and routes on it; an exception
\* that leaves the node ends the run
Finish(stage, r) ==
    /\ inv' = [stage |-> stage, work |-> r.work,
               appended |-> Len(r.state.errors) - Len(gs.errors),
               escaped |-> r.escaped, given |-> {}]
    /\ gs' = IF r.escaped THEN gs ELSE r.state
    /\ node' = IF r.escaped THEN "raised" ELSE Route(graph, stage, r.state)

cleanup_node ==
    /\ node = "cleanup"
    /\ core' = IF gs.skip["cleanup"] THEN core ELSE CleanCore(core, now)
    /\ store' = IF gs.skip["cleanup"] THEN store
                ELSE CleanFeatures(store, gs.selective_features)
    /\ inv' = [stage |-> "cleanup", work |-> "ok", appended |-> 0, escaped |-> FALSE, given |-> {}]
    /\ node' = Route(graph, "cleanup", gs)
    /\ UNCHANGED <<args, gs, graph, rec>>
    /\ UNCHANGED ledgerVars
    /\ UNCHANGED <<trainerVars, storageVars>>

\* a run is followed until it has returned from monitoring more than MaxLoops times
fetch_node ==
    /\ node = "fetch"
    /\ graph.loops <= MaxLoops
    /\ \E work_ok \in BOOLEAN : Finish("fetch", fetch_result(gs, work_ok))
    /\ UNCHANGED <<core, store, args, graph, rec>>
    /\ UNCHANGED ledgerVars
    /\ UNCHANGED <<trainerVars, storageVars>>

engineer_node ==
    /\ node = "engineer"
    /\ \E work_ok \in BOOLEAN : Finish("engineer", engineer_result(gs, work_ok))
    /\ UNCHANGED <<core, store, args, graph, rec>>
    /\ UNCHANGED ledgerVars
    /\ UNCHANGED <<trainerVars, storageVars>>

select_node ==
    /\ node = "select"
    /\ \E work_ok \in BOOLEAN : Finish("select", select_result(gs, work_ok))
    /\ UNCHANGED <<core, store, args, graph, rec>>
    /\ UNCHANGED ledgerVars
    /\ UNCHANGED <<trainerVars, storageVars>>

cluster_node ==
    /\ node = "cluster"
    /\ \E work_ok \in BOOLEAN :
        /\ Finish("cluster", cluster_result(gs, core, now, work_ok))
        /\ core' = IF ClusterTrains(gs, core, now) /\ work_ok
                   THEN [core EXCEPT !.hmm = now] ELSE core
    /\ UNCHANGED <<store, args, graph, rec>>
    /\ UNCHANGED ledgerVars
    /\ UNCHANGED <<trainerVars, storageVars>>

classify_node ==
    /\ node = "classify"
    /\ \E work_ok \in BOOLEAN :
        /\ Finish("classify", classify_result(gs, core, now, work_ok))
        /\ core' = IF ClassifyTrains(gs, core, now) /\ work_ok
                   THEN [core EXCEPT !.classifier = now] ELSE core
    /\ UNCHANGED <<store, args, graph, rec>>
    /\ UNCHANGED ledgerVars
    /\ UNCHANGED <<trainerVars, storageVars>>

forecast_node ==
    /\ node = "forecast"
    /\ IF ForecastTrains(gs)
       THEN \E work_ok \in BOOLEAN, outcome \in [Features -> TrainOutcomes] :
                /\ Finish("forecast", forecast_result(gs, work_ok))
                /\ store' = IF work_ok
                            THEN run_forecasting_agent(store, gs.selective_features,
                                                       outcome, now)
                            ELSE store
       ELSE /\ Finish("forecast", forecast_result(gs, TRUE))
            /\ store' = store
    /\ UNCHANGED <<core, args, graph, rec>>
    /\ UNCHANGED ledgerVars
    /\ UNCHANGED <<trainerVars, storageVars>>

inference_node ==
    /\ node = "inference"
    /\ \E work_ok \in BOOLEAN :
        Finish("inference", inference_result(gs, "inference", {"regime_forecast_id"}, work_ok))
    /\ UNCHANGED <<core, store, args, graph, rec>>
    /\ UNCHANGED ledgerVars
    /\ UNCHANGED <<trainerVars, storageVars>>

alerts_node ==
    /\ node = "alerts"
    /\ \E work_ok \in BOOLEAN :
        Finish("alerts", inference_result(gs, "alerts", {"alert_result"}, work_ok))
    /\ UNCHANGED <<core, store, args, graph, rec>>
    /\ UNCHANGED ledgerVars
    /\ UNCHANGED <<trainerVars, storageVars>>

validation_node ==
    /\ node = "validation"
    /\ \E work_ok \in BOOLEAN :
        Finish("validation", inference_result(gs, "validation", {}, work_ok))
    /\ UNCHANGED <<core, store, args, graph, rec>>
    /\ UNCHANGED ledgerVars
    /\ UNCHANGED <<trainerVars, storageVars>>

\* graph.loops counts how often the retraining edge monitoring -> fetch was taken
monitoring_node ==
    /\ node = "monitoring"
    /\ \E work_ok \in BOOLEAN, should_retrain \in BOOLEAN :
        LET r == monitoring_result(gs, work_ok, should_retrain)
            loops_back == Route(graph, "monitoring", r.state) = "fetch"
        IN /\ Finish("monitoring", r)
           /\ graph' = IF loops_back THEN [graph EXCEPT !.loops = @ + 1] ELSE graph
    /\ UNCHANGED <<core, store, args, rec>>
    /\ UNCHANGED ledgerVars
    /\ UNCHANGED <<trainerVars, storageVars>>

\* review_<stage>_node, then the router of the checkpoint
Given(response) ==
    (IF response.first THEN {"first"} ELSE {}) \cup (IF response.second THEN {"second"} ELSE {})

review_node(stage) ==
    /\ node = ReviewNode(stage)
    /\ \E response \in Responses :
        LET r == review_result(gs, stage, response) IN
        /\ r.asked \/ response = Approve
        /\ gs' = r.state
        /\ inv' = [stage |-> ReviewNode(stage),
                   work |-> IF r.asked THEN response.word ELSE "auto",
                   appended |-> 0, escaped |-> FALSE,
                   given |-> IF r.asked THEN Given(response) ELSE {}]
        /\ node' = Route(graph, ReviewNode(stage), r.state)
    /\ UNCHANGED <<core, store, args, graph, rec>>
    /\ UNCHANGED ledgerVars
    /\ UNCHANGED <<trainerVars, storageVars>>

\* abort_node prints the errors and leaves the state as it is. No edge of
\* build_complete_graph leads to it, and build_pipeline_graph routes to it only
\* after a stage has returned success=false, which no training stage does while
\* RealTimeLogger lacks commit_to_github; so no run of a driver reaches it,
\* only a router applied to a hand-built state does.
abort_node ==
    /\ node = "abort"
    /\ inv' = [stage |-> "abort", work |-> "ok", appended |-> 0, escaped |-> FALSE, given |-> {}]
    /\ node' = Route(graph, "abort", gs)
    /\ UNCHANGED <<core, store, args, gs, graph, rec>>
    /\ UNCHANGED ledgerVars
    /\ UNCHANGED <<trainerVars, storageVars>>

\* run_pipeline.py main() after the workflow function: sys.exit(0) once
\* graph.invoke has returned a result, sys.exit(1) when it raised
ExitCode(ended) == IF ended = "raised" THEN 1 ELSE 0

Exit ==
    /\ graph.kind = "complete"
    /\ node \in {"END", "raised"}
    /\ node' = IF ExitCode(node) = 0 THEN "exit_0" ELSE "exit_1"
    /\ UNCHANGED <<core, store, args, gs, graph, inv, rec>>
    /\ UNCHANGED ledgerVars
    /\ UNCHANGED <<trainerVars, storageVars>>

NextGraph ==
    \/ Main
    \/ TestMain
    \/ Exit
    \/ \E stage \in TrainStages : review_node(stage)
    \/ cleanup_node
    \/ fetch_node
    \/ engineer_node
    \/ select_node
    \/ cluster_node
    \/ classify_node
    \/ forecast_node
    \/ inference_node
    \/ alerts_node
    \/ validation_node
    \/ monitoring_node

SpecGraph == InitGraph /\ [][NextGraph]_vars

\* ------------------------------------------------------------------------
\* Routers and checkpoints on hand-built states, as test_conditional_routing
\* calls them: one stage has ended with any status, in any of the graphs
\* ------------------------------------------------------------------------
StageStatuses == {"empty", "ok", "failed", "skipped", "dependency_failed"}

\* the stages that start with a dependency check, and the stage each one checks
Dependents == {"engineer", "select", "cluster", "classify", "forecast"}

Upstream(stage) ==
    CASE stage = "engineer" -> "fetch"
      [] stage = "select" -> "engineer"
      [] stage = "cluster" -> "select"
      [] stage = "classify" -> "cluster"
      [] stage = "forecast" -> "fetch"

BuiltGraphs ==
    {[kind |-> "pipeline", enable_human_review |-> TRUE, loops |-> 0],
     [kind |-> "pipeline", enable_human_review |-> FALSE, loops |-> 0],
     [kind |-> "complete", enable_human_review |-> FALSE, loops |-> 0]}

HandBuiltState(workflow_type, stage, status, skipped, skip_classify, abort_pipeline) ==
    LET skip == [st \in SkipFlags |->
                    (st = stage /\ skipped) \/ (st = "classify" /\ st # stage /\ skip_classify)]
    IN [create_initial_state(workflow_type, skip, NoneList, TRUE)
            EXCEPT !.status[stage] = status, !.abort_pipeline = abort_pipeline]

InitCheckpoint ==
    /\ ledger = AbsentLedger
    /\ now = GraphNow
    /\ cadence = "daily"
    /\ attempt = Idle
    /\ issued = <<>>
    /\ call = Call("init", None, "")
    /\ verdict = NoVerdict
    /\ core = NoCoreFiles
    /\ store = NoFeatureFiles
    /\ args = NoArgs
    /\ rec = NoRecommendation
    /\ graph \in BuiltGraphs
    /\ \E stage \in WorkStages, status \in StageStatuses, workflow_type \in {"training", "full"},
          skipped \in BOOLEAN, skip_classify \in BOOLEAN, abort_pipeline \in BOOLEAN,
          at \in {"routing", "review"} \cup Dependents :
        /\ graph.kind = "pipeline" => stage \in TrainStages
        /\ at = "review" => graph.enable_human_review
        /\ at \in Dependents => stage = Upstream(at)
        /\ gs = HandBuiltState(workflow_type, stage, status, skipped, skip_classify,
                               abort_pipeline)
        /\ node = IF at = "review" THEN ReviewNode(stage) ELSE at
        /\ inv = [NoInvocation EXCEPT !.stage = stage]
    /\ IdleTrainer
    /\ IdleStorage

\* the router that follows the stage that has ended
RouteAfterStage ==
    /\ node = "routing"
    /\ node' = Route(graph, inv.stage, gs)
    /\ UNCHANGED <<core, store, args, gs, graph, inv, rec>>
    /\ UNCHANGED ledgerVars
    /\ UNCHANGED <<trainerVars, storageVars>>

\* a stage node called on a hand-built state, as test_engineer_node calls it,
\* after its upstream stage has ended with any status
NextCheckpoint ==
    \/ RouteAfterStage
    \/ \E stage \in TrainStages : review_node(stage)
    \/ abort_node
    \/ engineer_node
    \/ select_node
    \/ cluster_node
    \/ classify_node
    \/ forecast_node

SpecCheckpoint == InitCheckpoint /\ [][NextCheckpoint]_vars

\* ------------------------------------------------------------------------
\* Properties of the version ledger
\* ------------------------------------------------------------------------
EntriesOf(L, version) == {i \in DOMAIN L.versions : L.versions[i].version = version}

Others(vs, version) == SelectSeq(vs, LAMBDA e : e.version # version)

\* C1: after any sequence of mark_version_status calls, active_version is null
\* or is the version of a ledger entry whose status is completed.
ActiveVersionIsCompleted ==
    ledger.active_version # None =>
        \E i \in EntriesOf(ledger, ledger.active_version) :
            ledger.versions[i].status = "completed"

\* C2: every value returned by get_next_version is greater than every value it
\* returned before, and the first one is 1.
NextVersionStrictlyIncreasing ==
    /\ \A i, j \in DOMAIN issued : i < j => issued[i] < issued[j]
    /\ issued # <<>> => issued[1] = 1

NextVersionAfterFailure ==
    /\ Len(issued) >= 2
    /\ \E i \in DOMAIN ledger.versions : ledger.versions[i].status = "failed"
    /\ \E i \in DOMAIN ledger.versions : ledger.versions[i].status = "training"

\* C3: a mark with status training or failed leaves active_version unchanged, a
\* mark with status completed sets it to the marked version, and the entries of
\* all other versions stay as they were.
MarkFrameEffect ==
    [][call'.op = "mark" =>
        /\ call'.status \in {"training", "failed"} =>
                ledger'.active_version = ledger.active_version
        /\ call'.status = "completed" =>
                ledger'.active_version = call'.version
        /\ Others(ledger'.versions, call'.version) = Others(ledger.versions, call'.version)
      ]_vars

MarkedCompletedBesideOthers ==
    /\ call.op = "mark"
    /\ call.status = "completed"
    /\ ledger.active_version = call.version
    /\ Others(ledger.versions, call.version) # <<>>

ActiveFilesPresent(L) ==
    /\ L.meta_exists
    /\ L.active_version # None
    /\ L.active_version \in L.nf_bundle
    /\ L.ensemble[L.active_version] # NoTime

ActiveCreatedAt(L) == L.versions[FindEntry(L.versions, L.active_version)].created_at

StatedThreshold(cad) ==
    CASE cad = "daily" -> 90 [] cad = "weekly" -> 180 [] cad = "monthly" -> 365

\* C6: for a feature whose active version has all required files, needs_training
\* is exactly age_days > threshold(cadence), with thresholds 90, 180 and 365 days:
\* not stale at threshold - 1 and at threshold days, stale at threshold + 1 days.
StaleBeyondThreshold ==
    (call.op = "check" /\ ActiveFilesPresent(ledger)) =>
        LET elapsed == now - ActiveCreatedAt(ledger)
            T == StatedThreshold(cadence)
        IN /\ verdict.exists
           /\ verdict.age_days * DayLen <= elapsed
           /\ elapsed < (verdict.age_days + 1) * DayLen
           /\ verdict.needs_training <=> (elapsed >= (T + 1) * DayLen)
           /\ elapsed \in (T - 1) * DayLen .. (T + 1) * DayLen - 1 => ~verdict.needs_training

StaleOneDayPastThreshold ==
    /\ call.op = "check"
    /\ ActiveFilesPresent(ledger)
    /\ cadence = "monthly"
    /\ verdict.age_days = 366
    /\ verdict.needs_training

\* ------------------------------------------------------------------------
\* Properties of the recommendation engine and the driver
\* ------------------------------------------------------------------------
AutoMode == rec.workflow # "none"

NeedingTraining(features_status) == {f \in Features : features_status[f].needs_training}

\* C4: for every combination of core and per-feature verdicts the recommendation
\* is the first match of: core needs training -> train with retrain_core; no
\* feature needs training -> inference with no targets and no core retrain;
\* otherwise partial_train without core retrain. In all three cases
\* features_to_train is exactly the set of features whose verdict needs training.
RecommendationTable ==
    AutoMode =>
        LET need == NeedingTraining(rec.features_status) IN
        /\ rec.features_to_train = need
        /\ IF rec.core_status.needs_training
           THEN rec.workflow = "train" /\ rec.retrain_core
           ELSE IF need = {}
           THEN rec.workflow = "inference" /\ rec.features_to_train = {} /\ ~rec.retrain_core
           ELSE rec.workflow = "partial_train" /\ ~rec.retrain_core

TrainWithFreshFeature ==
    /\ rec.workflow = "train"
    /\ \E f \in Features :
        ~rec.features_status[f].needs_training /\ f \notin rec.features_to_train

\* the features the forecast stage of this run hands to the trainer
TargetsOfRun(s) ==
    IF s.workflow_type = "inference" \/ s.skip["forecast"] \/ AllFresh(s)
    THEN {}
    ELSE ForecastTargets(s.selective_features)

\* C5: in auto mode the run's forecast stage retrains exactly the features of the
\* recommendation's features_to_train; with an empty target set it retrains none.
AutoTargetsCarried ==
    (AutoMode /\ ~args.skip["forecast"]) => TargetsOfRun(gs) = rec.features_to_train

\* the active version of the feature lacks its nf_bundle or its ensemble file
FeaturePartial(L) ==
    /\ L.meta_exists
    /\ L.active_version # None
    /\ (L.active_version \notin L.nf_bundle \/ L.ensemble[L.active_version] = NoTime)

CorePartial(c) == c.hmm = NoTime \/ c.classifier = NoTime \/ ~c.cluster

FeaturePartialReportedMissing ==
    \A f \in Features :
        FeaturePartial(store[f]) =>
            /\ rec.features_status[f].needs_training
            /\ ~rec.features_status[f].exists
            /\ rec.features_status[f].age_days = NoAge

\* the age of the older of the HMM model and classifier files that exist
OlderCoreAge(c, t) ==
    LET ages == {Days(t - m) : m \in {c.hmm, c.classifier} \ {NoTime}} IN
    IF ages = {} THEN NoAge ELSE Max(ages)

\* the recommendation was just computed from the files now on disk
JustRecommended == AutoMode /\ node = "cleanup"

StageErrorAccounting ==
    inv.stage \in WorkStages =>
        /\ ~inv.escaped
        /\ inv.appended = IF inv.work = "raised" THEN 1 ELSE 0

\* C10: once a stage that was not skipped has recorded success=false, the next
\* node executed is abort.
FailedStageAborts ==
    [][(/\ node \in WorkStages
        /\ inv'.stage = node
        /\ ~inv'.escaped
        /\ ~Success(gs'.status[node])
        /\ ~gs'.skip[node]) => node' = "abort"]_vars

\* C18: a training attempt that ends without completing its version (it
\* returned None or raised after the version was marked training) has marked
\* that version failed by the time it ends, so a finished attempt leaves no
\* version at status training.
FinishedAttemptResolved ==
    (attempt.phase = "idle" /\ call.op = "abandon") =>
        /\ EntriesOf(ledger, call.version) # {}
        /\ \A i \in EntriesOf(ledger, call.version) : ledger.versions[i].status = "failed"

\* ------------------------------------------------------------------------
\* Raw feature storage: LocalStorage and BigQueryStorage
\* (data_agent/storage/local_storage.py, bigquery_storage.py)
\* ------------------------------------------------------------------------
\* a frame is the set of the timestamps of its rows (the index of the DataFrame)
Timestamps == 1..MaxTs

Frames == SUBSET Timestamps

\* LocalStorage.get_latest_timestamp: None without a file or rows
LocalLatest(file) == IF ~file.exists \/ file.rows = {} THEN None ELSE Max(file.rows)

\* BigQueryStorage.get_latest_timestamp: SELECT MAX(timestamp), None without rows
BigQueryLatest(table) == IF table = {} THEN None ELSE Max(table)

\* LocalStorage.save_raw_feature(df, feature, cadence, incremental=True): with a
\* file, the rows of df whose timestamp is not in the file are added to it;
\* without one, df is written as it is
LocalSave(file, df) ==
    IF file.exists
    THEN LET new_rows == {t \in df : t \notin file.rows} IN
         IF new_rows # {} THEN [file EXCEPT !.rows = @ \cup new_rows] ELSE file
    ELSE [exists |-> TRUE, rows |-> df]

\* BigQueryStorage.save_raw_feature(df, feature, cadence, incremental=True):
\* with a latest timestamp, the rows of df later than it are appended; without
\* one, df is appended whole
BigQuerySave(table, df) ==
    LET latest_ts == BigQueryLatest(table) IN
    IF latest_ts # None
    THEN LET new_rows == {t \in df : t > latest_ts} IN
         IF new_rows = {} THEN table ELSE table \cup new_rows
    ELSE table \cup df

\* both backends start from the same stored series
InitStorage ==
    /\ \E stored \in Frames, exists \in BOOLEAN :
        /\ stored # {} => exists
        /\ local_raw = [exists |-> exists, rows |-> stored]
        /\ bigquery_raw = stored
    /\ last_save = NoSave
    /\ ledger = AbsentLedger
    /\ now = 0
    /\ cadence = "daily"
    /\ attempt = Idle
    /\ issued = <<>>
    /\ call = Call("init", None, "")
    /\ verdict = NoVerdict
    /\ IdleGraph
    /\ IdleTrainer

\* the same frame is saved to both backends
SaveRawFeature(df) ==
    /\ last_save.saves < MaxSaves
    /\ local_raw' = LocalSave(local_raw, df)
    /\ bigquery_raw' = BigQuerySave(bigquery_raw, df)
    /\ last_save' = [frame |-> df, local_before |-> local_raw,
                     bigquery_before |-> bigquery_raw, saves |-> last_save.saves + 1]
    /\ UNCHANGED <<ledgerVars, graphVars, trainerVars>>

NextStorage == \E df \in Frames : SaveRawFeature(df)

SpecStorage == InitStorage /\ [][NextStorage]_vars

NewerThan(latest, df) == {t \in df : latest = None \/ t > latest}

\* C20: both backends implement the same incremental save: a save appends
\* exactly the rows of the frame later than the latest stored timestamp, so
\* both backends hold the same rows after the same saves, and saving the same
\* frame again changes nothing.
SameIncrementalSave ==
    last_save.saves > 0 =>
        /\ local_raw.rows = last_save.local_before.rows
               \cup NewerThan(LocalLatest(last_save.local_before), last_save.frame)
        /\ bigquery_raw = last_save.bigquery_before
               \cup NewerThan(BigQueryLatest(last_save.bigquery_before), last_save.frame)
        /\ local_raw.rows = bigquery_raw
        /\ LocalSave(local_raw, last_save.frame) = local_raw
        /\ BigQuerySave(bigquery_raw, last_save.frame) = bigquery_raw

\* C19: the driver exits with code 0 only on full success: a run whose final
\* state has a non-empty errors list, or that ended through abort, exits with a
\* non-zero code.
ExitZeroOnlyOnSuccess ==
    node = "exit_0" => (gs.errors = <<>> /\ inv.stage # "abort")

\* C11: abort_pipeline is checked after every stage: in every graph that can
\* be built, when abort_pipeline is true in the state at the end of a stage the
\* router of that stage leads to abort, whatever the stage status.
AbortCheckedAfterEveryStage ==
    [][(node = "routing" /\ gs.abort_pipeline) => node' = "abort"]_vars

TypedResponse(i) ==
    [word |-> i.work, first |-> "first" \in i.given, second |-> "second" \in i.given]

\* C12: at each of the six checkpoints, a reject decision sets
\* <stage>_approved false and abort_pipeline true and leads to abort; an approve
\* or modify decision sets <stage>_approved true and leaves abort_pipeline as it
\* was, and modify writes the override parameters that were given.
CheckpointDecisions ==
    [][\A stage \in TrainStages :
        (node = ReviewNode(stage) /\ inv'.stage = ReviewNode(stage) /\ inv'.work # "auto") =>
            IF inv'.work = "y"
            THEN gs'.approved[stage] /\ gs'.abort_pipeline = gs.abort_pipeline
            ELSE IF inv'.work = ModifyWord(stage)
            THEN /\ gs'.approved[stage]
                 /\ gs'.abort_pipeline = gs.abort_pipeline
                 /\ gs'.overrides = gs.overrides \cup Written(stage, TypedResponse(inv'))
            ELSE /\ ~gs'.approved[stage]
                 /\ gs'.abort_pipeline
                 /\ node' = "abort"]_vars

\* C13: a checkpoint whose stage was skipped or did not succeed sets
\* <stage>_approved true, asks for no decision and changes no other state field.
AutoApproveUntouched ==
    [][\A stage \in TrainStages :
        (node = ReviewNode(stage) /\ inv'.stage = ReviewNode(stage)
         /\ (gs.skip[stage] \/ ~Success(gs.status[stage]))) =>
            /\ gs' = [gs EXCEPT !.approved[stage] = TRUE]
            /\ inv'.work = "auto"]_vars

AutoApprovedFailedStage ==
    /\ inv.stage \in ReviewNodes
    /\ inv.work = "auto"
    /\ gs.status[ReviewedStage(inv.stage)] = "failed"
    /\ ~gs.skip[ReviewedStage(inv.stage)]
    /\ gs.approved[ReviewedStage(inv.stage)]

\* C14: compiling the graph without checkpoints only removes the checkpoints:
\* a checkpoint that approves is followed by the node that follows its stage in
\* build_pipeline_graph(enable_human_review=False).
CheckpointsOnlyRemoved ==
    [][\A stage \in TrainStages :
        (/\ graph.kind = "pipeline"
         /\ node = ReviewNode(stage)
         /\ inv'.stage = ReviewNode(stage)
         /\ gs'.approved[stage]
         /\ ~gs'.abort_pipeline) =>
            node' = AfterReview(stage)]_vars

\* ------------------------------------------------------------------------
\* The incremental trainer (cloud_run/incremental_trainer.py), run with
\* --repo-dir and its defaults: skip_existing=True, force_retrain=False
\* ------------------------------------------------------------------------
\* for attempt in range(3)
MaxPushAttempts == 3

\* outputs/forecasting/models/<feature>/ as git sees it
ModelDir(w) ==
    [nf_bundle |-> w.L.nf_bundle, ensemble |-> w.L.ensemble,
     version_metadata |-> w.version_metadata]

\* a fresh clone holds the committed model directory and no ledger, which
\* lies beside the directory and is never staged
Cloned(dir) ==
    [L |-> [AbsentLedger EXCEPT !.nf_bundle = dir.nf_bundle, !.ensemble = dir.ensemble],
     version_metadata |-> dir.version_metadata]

\* check_feature_exists_in_repo reads <feature>_version_metadata.json in the
\* model directory; it returns False when the file is absent. No code writes
\* that file, so its content has no model.
check_feature_exists_in_repo(w) == IF ~w.version_metadata THEN FALSE ELSE TRUE

\* train_single_feature: run_forecasting_agent catches what the training of
\* the feature raises, so only a failure of run_forecasting_agent itself
\* ("raised": the config or the data loader) makes it return False
TrainerOutcomes == TrainOutcomes \cup {"raised"}

train_single_feature(w, outcome, t) ==
    IF outcome = "raised"
    THEN [work |-> w, success |-> FALSE]
    ELSE [work |-> [w EXCEPT !.L = TrainFeature(@, outcome, t)], success |-> TRUE]

Count(seq, f) == Cardinality({k \in DOMAIN seq : seq[k] = f})

\* results with a failed unit left out
RecordResult_drops_failed(results, f, outcome) ==
    IF outcome = "skipped" THEN [results EXCEPT !.skipped = Append(@, f)]
    ELSE IF outcome = "completed" THEN [results EXCEPT !.completed = Append(@, f)]
    ELSE results

\* results["completed" | "skipped" | "failed"].append(feature_name)
RecordResult(results, f, outcome) ==
    IF outcome = "skipped" THEN [results EXCEPT !.skipped = Append(@, f)]
    ELSE IF outcome = "completed" THEN [results EXCEPT !.completed = Append(@, f)]
    ELSE [results EXCEPT !.failed = Append(@, f)]

\* the loop goes on to the next unit, or ends with the summary
AfterUnit(tr) ==
    [tr EXCEPT !.i = @ + 1, !.attempt = 0,
               !.pc = IF tr.i = Len(Queue) THEN "done" ELSE "unit"]

Handle(tr, f, outcome) ==
    [tr EXCEPT !.results = RecordResult(@, f, outcome), !.log.handled = Append(@, f)]

NewInvocation(tr, cloned) ==
    [NoTrainer EXCEPT !.pc = "unit", !.invocation = tr.invocation + 1,
                      !.staged = IF cloned THEN {} ELSE tr.staged,
                      !.cloned = cloned, !.prev = tr.log]

InitTrainer ==
    /\ ledger = AbsentLedger
    /\ now = 0
    /\ cadence = "daily"
    /\ attempt = Idle
    /\ issued = <<>>
    /\ call = Call("init", None, "")
    /\ verdict = NoVerdict
    /\ IdleGraph
    /\ IdleTrainer
    /\ IdleStorage

\* main(): the first invocation, in a repository without models
StartTrainer ==
    /\ trainer.pc = "idle"
    /\ trainer' = NewInvocation(trainer, FALSE)
    /\ UNCHANGED <<workdir, head, remote>>
    /\ UNCHANGED <<ledgerVars, graphVars, storageVars>>

\* one pass of the loop body up to the call of commit_and_push_feature
ProcessUnit ==
    /\ trainer.pc = "unit"
    /\ LET f == Queue[trainer.i] IN
       IF check_feature_exists_in_repo(workdir[f])
       THEN /\ trainer' = AfterUnit(Handle(trainer, f, "skipped"))
            /\ workdir' = workdir
       ELSE \E outcome \in TrainerOutcomes :
            LET r == train_single_feature(workdir[f], outcome, now)
                started == r.work.L.versions # workdir[f].L.versions
                tr == [trainer EXCEPT !.log.trained =
                                          IF started THEN @ \cup {f} ELSE @]
            IN /\ workdir' = [workdir EXCEPT ![f] = r.work]
               /\ trainer' = IF r.success
                             THEN [Handle(tr, f, "completed") EXCEPT !.pc = "commit"]
                             ELSE AfterUnit(Handle(tr, f, "failed"))
    /\ UNCHANGED <<head, remote>>
    /\ UNCHANGED <<ledgerVars, graphVars, storageVars>>

\* commit_and_push_feature up to git commit
CommitUnit ==
    /\ trainer.pc = "commit"
    /\ LET f == Queue[trainer.i]
           staged == trainer.staged \cup {f}
           changed == {g \in staged : ModelDir(workdir[g]) # head[g]}
       IN IF ~DirExists(workdir[f].L)
          THEN /\ trainer' = AfterUnit(trainer)
               /\ head' = head
          ELSE IF changed = {}
          THEN /\ trainer' = AfterUnit([trainer EXCEPT !.staged = {}])
               /\ head' = head
          ELSE \E committed \in BOOLEAN :
               IF committed
               THEN /\ head' = [g \in QueueFeatures |->
                                   IF g \in staged THEN ModelDir(workdir[g]) ELSE head[g]]
                    /\ trainer' = [trainer EXCEPT !.staged = {}, !.pc = "push", !.attempt = 0]
               ELSE /\ head' = head
                    /\ trainer' = AfterUnit([trainer EXCEPT !.staged = staged])
    /\ UNCHANGED <<workdir, remote>>
    /\ UNCHANGED <<ledgerVars, graphVars, storageVars>>

\* one round of the retry loop: git pull --rebase, whose result is not looked
\* at, then git push
PushAttempt ==
    /\ trainer.pc = "push"
    /\ trainer.attempt < MaxPushAttempts
    /\ LET f == Queue[trainer.i] IN
       \E pushed \in BOOLEAN :
          IF pushed
          THEN /\ remote' = head
               /\ trainer' = AfterUnit(
                     [trainer EXCEPT !.log.pushed = @ \cup {f},
                                     !.last_push = [feature |-> f, result |-> "pushed",
                                                    attempts |-> trainer.attempt + 1]])
          ELSE /\ remote' = remote
               /\ trainer' =
                     IF trainer.attempt + 1 = MaxPushAttempts
                     THEN AfterUnit(
                            [trainer EXCEPT !.log.push_failed = @ \cup {f},
                                            !.last_push = [feature |-> f, result |-> "failed",
                                                           attempts |-> trainer.attempt + 1]])
                     ELSE [trainer EXCEPT !.attempt = @ + 1]
    /\ UNCHANGED <<workdir, head>>
    /\ UNCHANGED <<ledgerVars, graphVars, storageVars>>

\* the next invocation in the same working directory
Restart ==
    /\ trainer.pc = "done"
    /\ trainer.invocation < MaxInvocations
    /\ trainer' = NewInvocation(trainer, FALSE)
    /\ UNCHANGED <<workdir, head, remote>>
    /\ UNCHANGED <<ledgerVars, graphVars, storageVars>>

\* the process ends or is killed, and the next invocation starts from a clone
\* of origin/main
RestartFromClone ==
    /\ trainer.pc \in {"unit", "commit", "push", "done"}
    /\ trainer.invocation < MaxInvocations
    /\ trainer' = NewInvocation(trainer, TRUE)
    /\ workdir' = [f \in QueueFeatures |-> Cloned(remote[f])]
    /\ head' = remote
    /\ UNCHANGED remote
    /\ UNCHANGED <<ledgerVars, graphVars, storageVars>>

NextTrainer ==
    \/ StartTrainer
    \/ ProcessUnit
    \/ CommitUnit
    \/ PushAttempt
    \/ Restart
    \/ RestartFromClone

SpecTrainer == InitTrainer /\ [][NextTrainer]_vars

InQueue == IF trainer.pc \in {"commit", "push"} THEN trainer.i ELSE trainer.i - 1

AllResults == trainer.results.completed \o trainer.results.skipped \o trainer.results.failed

\* C15: run_incremental_training handles its queue in order and every unit
\* once: the units handled so far are a prefix of the queue, a unit whose
\* training failed is followed by the later units, and at the end every queued
\* unit is in exactly one of completed, skipped and failed.
QueueHandledOnce ==
    trainer.pc # "idle" =>
        /\ trainer.log.handled = SubSeq(Queue, 1, InQueue)
        /\ \A f \in QueueFeatures :
              Count(AllResults, f) = Count(trainer.log.handled, f)
        /\ trainer.pc = "done" =>
              \A f \in QueueFeatures : Count(AllResults, f) = 1

FailedUnitFollowedByOthers ==
    /\ trainer.pc = "done"
    /\ trainer.results.failed = <<Queue[1]>>
    /\ trainer.results.completed = <<Queue[2], Queue[3]>>

Durable(f) == remote[f] = ModelDir(workdir[f])

\* C16: when the first invocation trained and pushed unit 1, trained unit 2
\* without getting its push through, and handled unit 3, the second invocation
\* (in the same directory or from a clone of the pushed state), when none of
\* its trainings raises, does not retrain unit 1, pushes the commit of unit 2
\* again unless it has reached the remote already, and handles unit 3.
ResumptionAfterFailedPush ==
    (/\ trainer.pc = "done"
     /\ trainer.invocation = 2
     /\ trainer.results.failed = <<>>
     /\ Queue[1] \in trainer.prev.trained \cap trainer.prev.pushed
     /\ Queue[2] \in trainer.prev.trained \cap trainer.prev.push_failed
     /\ Queue[3] \in {trainer.prev.handled[k] : k \in DOMAIN trainer.prev.handled}) =>
        /\ Queue[1] \notin trainer.log.trained
        /\ Queue[2] \in trainer.log.pushed \cup trainer.log.push_failed \/ Durable(Queue[2])
        /\ Queue[3] \in {trainer.log.handled[k] : k \in DOMAIN trainer.log.handled}

LatestEntry(L) ==
    CHOOSE i \in DOMAIN L.versions : \A j \in DOMAIN L.versions :
        L.versions[j].version <= L.versions[i].version

\* C17: the push of a trained unit is tried at most 3 times, and when every
\* try has failed the version of the unit is left at status training and
\* active_version does not point to it.
FailedPushLeavesTraining ==
    trainer.last_push.result = "failed" =>
        LET L == workdir[trainer.last_push.feature].L IN
        /\ trainer.last_push.attempts <= 3
        /\ L.versions # <<>>
        /\ L.versions[LatestEntry(L)].status = "training"
        /\ L.active_version # L.versions[LatestEntry(L)].version

\* C21: a stage invoked while its upstream stage neither succeeded nor was
\* skipped does no work, appends an entry with its own name to the errors list
\* and is followed by abort.
DependencyNotMetAborts ==
    [][\A stage \in Dependents :
        (/\ node = stage
         /\ inv'.stage = stage
         /\ ~gs.skip[stage]
         /\ ~DependencyMet(gs, Upstream(stage))) =>
            /\ inv'.work = "dependency"
            /\ Len(gs'.errors) = Len(gs.errors) + 1
            /\ gs'.errors[Len(gs'.errors)].stage = stage
            /\ node' = "abort"]_vars

\* C22: a work stage invoked with its skip flag set does no work, sets its
\* status to skipped, appends nothing to errors and changes no other state
\* field, and the dependency check of the stage that depends on it is met.
SkippedStageFrame ==
    [][\A stage \in WorkStages :
        (node = stage /\ inv'.stage = stage /\ gs.skip[stage]) =>
            /\ gs' = [gs EXCEPT !.status[stage] = "skipped"]
            /\ inv'.work = "skipped"
            /\ ~inv'.escaped
            /\ core' = core
            /\ store' = store
            /\ \A next \in Dependents : Upstream(next) = stage => DependencyMet(gs', stage)]_vars

StageWasSkipped ==
    /\ inv.stage \in WorkStages
    /\ inv.work = "skipped"
    /\ gs.skip[inv.stage]
    /\ gs.status[inv.stage] = "skipped"

\* ------------------------------------------------------------------------
\* Runs of build_pipeline_graph under graph.stream, which calls the nodes one
\* after the other until END or an exception: a node that can run does run
\* ------------------------------------------------------------------------
InitPipeline == InitGraph /\ node = "test"

NextPipeline ==
    \/ TestMain
    \/ \E stage \in TrainStages : review_node(stage)
    \/ cleanup_node
    \/ fetch_node
    \/ engineer_node
    \/ select_node
    \/ cluster_node
    \/ classify_node
    \/ forecast_node

SpecPipeline == InitPipeline /\ [][NextPipeline]_vars /\ WF_vars(NextPipeline)

AllTrainingSkipped == \A stage \in TrainStages : gs.skip[stage]

VisitOrder == <<"cleanup", "fetch", "engineer", "select", "cluster", "classify", "forecast", "END">>

NoReviewRun == graph.kind = "pipeline" /\ ~graph.enable_human_review

\* C23: a run of build_pipeline_graph(enable_human_review=False) terminates;
\* with every skip flag set each step leads from one of cleanup, fetch,
\* engineer, select, cluster, classify, forecast to the next one in that order
\* and from forecast to END, abort is never visited, and the errors list is
\* empty at END.
PipelineTerminatesInOrder ==
    /\ NoReviewRun ~> (node \in {"END", "raised"})
    /\ [][(NoReviewRun /\ AllTrainingSkipped) =>
            \E i \in 1..7 : node = VisitOrder[i] /\ node' = VisitOrder[i + 1]]_vars
    /\ []((NoReviewRun /\ AllTrainingSkipped) =>
            /\ node # "abort"
            /\ node = "END" => gs.errors = <<>>)

SkipAllReachedEnd ==
    /\ NoReviewRun
    /\ AllTrainingSkipped
    /\ node = "END"
    /\ inv.stage = "forecast"
    /\ inv.work = "skipped"
    /\ gs.errors = <<>>

\* C24: when cluster is entered again from its checkpoint, retry_stage is null
\* again, so the approval at the following cluster checkpoint leaves the cycle.
RetryFlagClearedOnReentry ==
    (node = "cluster" /\ inv.stage = "review_cluster") => gs.retry_stage = "None"

\* C25: in build_complete_graph the run goes from monitoring to fetch only when
\* workflow_type is full and the monitoring invocation that just ended did its
\* work and reported should_retrain; after a monitoring invocation that raised
\* or was skipped the run ends.
LoopsBackOnlyOnFreshReport ==
    [][(graph.kind = "complete" /\ node = "monitoring" /\ node' = "fetch") =>
            /\ gs'.workflow_type = "full"
            /\ inv'.work = "ok"
            /\ gs'.needs_retraining]_vars

\* ------------------------------------------------------------------------
\* The forecast stage on a feature the staleness check has selected:
\* check_feature_model_status puts the feature into selective_features, then
\* forecast_node calls run_forecasting_agent(force_retrain=False) on the
\* ledger as it is (no cleanup, --no-clean as run_daily_update passes it)
\* ------------------------------------------------------------------------
TrainSelectedFeature ==
    /\ call.op = "check"
    /\ verdict.needs_training
    /\ get_next_version(ledger) <= MaxVersion
    /\ \E outcome \in TrainOutcomes :
        /\ ledger' = TrainFeature(ledger, outcome, now)
        /\ call' = Call("train", None, outcome)
    /\ UNCHANGED <<now, cadence, attempt, issued, verdict, core, store, args, gs, graph, node, inv, rec>>
    /\ UNCHANGED <<trainer, workdir, head, remote, local_raw, bigquery_raw, last_save>>

NextSelected ==
    \/ call.op = "init" /\ CheckFeature
    \/ TrainSelectedFeature

SpecSelected == InitStale /\ [][NextSelected]_vars

\* C26: a selected feature whose completed active version is older than its
\* threshold gets a new version when the forecast stage trains it, and after a
\* training that completed the staleness check returns needs_training = false.
StaleSelectedRetrained ==
    [][(/\ call.op = "check"
        /\ verdict.exists
        /\ verdict.needs_training
        /\ call'.op = "train") =>
            /\ get_next_version(ledger') = get_next_version(ledger) + 1
            /\ call'.status = "completed" =>
                  ~check_feature_model_status(ledger', cadence, now).needs_training]_vars

\* C27: in any run, cleanup_node leaves the model files and the version ledger
\* of every feature whose staleness verdict is needs_training = false as they
\* were, and the core model files when the core verdict is needs_training = false.
CleanupPreservesFresh ==
    [][(node = "cleanup" /\ inv'.stage = "cleanup") =>
            /\ \A f \in Features :
                  ~check_feature_model_status(store[f], FeatureCadence(f), now).needs_training
                      => store'[f] = store[f]
            /\ ~check_core_models_status(core, now).needs_training => core' = core]_vars

\* C28: whenever a training attempt has marked a version completed, whatever
\* the cadence and whichever model file was saved, check_feature_model_status
\* called right afterwards returns exists = true and needs_training = false.
CompletedMeansUsable ==
    (attempt.phase = "idle" /\ call.op = "mark" /\ call.status = "completed") =>
        LET status == check_feature_model_status(ledger, cadence, now)
        IN status.exists /\ ~status.needs_training

\* C29: cleanup_node before a retraining keeps the version numbers of a
\* feature apart: every ledger entry the feature had is still present after
\* cleanup, and the version the next training allocates is greater than each.
VersionsSurviveCleanup ==
    [][(node = "cleanup" /\ inv'.stage = "cleanup" /\ ~gs.skip["cleanup"]) =>
            \A f \in Features : \A i \in DOMAIN store[f].versions :
                /\ \E j \in DOMAIN store'[f].versions :
                      store'[f].versions[j] = store[f].versions[i]
                /\ get_next_version(store'[f]) > store[f].versions[i].version]_vars

\* C30: at the end of run_incremental_training a unit is in results completed
\* only if its ledger holds a completed version, and a unit that was trained
\* and has no completed version is in results failed.
ResultsAreTruthful ==
    trainer.pc = "done" =>
        \A f \in QueueFeatures :
            LET trained == get_latest_completed_version(workdir[f].L) # None
            IN /\ Count(trainer.results.completed, f) > 0 => trained
               /\ (Count(trainer.results.skipped, f) = 0 /\ ~trained) =>
                      Count(trainer.results.failed, f) > 0

====
